---- MODULE Spec2Model ----
(***************************************************************************)
(* Model of bulkexec (src/src/bulkexec/__main__.py): the lazy command      *)
(* generator generate_commands, the launch/drain loops of execute_commands *)
(* and the per-process recorder handle_process_output.                     *)
(*                                                                         *)
(* Positions in the template are 0-based as in the code (idx, i); TLA+     *)
(* sequences are 1-based, so token idx is unknown_args[idx + 1].           *)
(***************************************************************************)
EXTENDS Integers, Sequences, FiniteSets, TLC

\* Longest template explored.
MaxTokens == 2

(***************************************************************************)
(* Tokens and their evaluation (eval at lines 67-71).                      *)
(***************************************************************************)

\* The template tokens explored: a word that is no expression, scalar
\* expressions, sized sequences (one of them empty, one depending on n) and
\* an iterable without a length (a generator expression).
Tokens ==
    {"echo", "1+1", "n", "range(2)", "range(3)", "range(n)", "range(0)",
     "repeat(7,2)", "(x for x in range(2))"}

\* range(k): the integers 0 .. k-1, in order.
Range(k) == [j \in 1..k |-> j - 1]

\* repeat(v, c): c copies of v.
Repeat(v, c) == [j \in 1..c |-> v]

Raises == [kind |-> "raise", sized |-> FALSE, items |-> <<>>, val |-> 0]

Scalar(v) == [kind |-> "scalar", sized |-> FALSE, items |-> <<>>, val |-> v]

Sized(s) == [kind |-> "iter", sized |-> TRUE, items |-> s, val |-> 0]

\* An Iterable on which len() raises TypeError.
Unsized == [kind |-> "iter", sized |-> FALSE, items |-> <<>>, val |-> 0]

\* eval(arg, {"__builtins__": None}, {"n": n, "range": range, "repeat": np.repeat})
Eval(arg, n) ==
    CASE arg = "1+1" -> Scalar(1 + 1)
      [] arg = "n" -> Scalar(n)
      [] arg = "range(2)" -> Sized(Range(2))
      [] arg = "range(3)" -> Sized(Range(3))
      [] arg = "range(n)" -> Sized(Range(n))
      [] arg = "range(0)" -> Sized(Range(0))
      [] arg = "repeat(7,2)" -> Sized(Repeat(7, 2))
      [] arg = "(x for x in range(2))" -> Unsized
      [] OTHER -> Raises

\* str() of a small non-negative integer.
Str(v) == <<"0", "1", "2", "3", "4", "5", "6", "7", "8", "9">>[v + 1]

Max(a, b) == IF a >= b THEN a ELSE b

Min(S) == CHOOSE x \in S : \A y \in S : x <= y

(***************************************************************************)
(* Child processes: what a child may have produced when it terminates.     *)
(***************************************************************************)

\* stdout bytes, stderr bytes and exit code of a terminated child.
Outcomes ==
    { [stdout |-> <<104, 105>>, stderr |-> <<>>, returncode |-> 0],
      [stdout |-> <<>>, stderr |-> <<101>>, returncode |-> 1],
      [stdout |-> <<195, 169>>, stderr |-> <<>>, returncode |-> 0],
      [stdout |-> <<255>>, stderr |-> <<>>, returncode |-> 0] }

\* bytes.decode("utf-8") restricted to one- and two-byte encodings (the only
\* ones Outcomes contains): the code points, or ok = FALSE where decode
\* raises UnicodeDecodeError.
RECURSIVE Decode(_)
Decode(b) ==
    IF b = <<>> THEN [ok |-> TRUE, text |-> <<>>]
    ELSE IF Head(b) < 128
         THEN LET r == Decode(Tail(b))
              IN  [ok |-> r.ok, text |-> <<Head(b)>> \o r.text]
    ELSE IF /\ Head(b) \in 194..223
            /\ Len(b) >= 2
            /\ b[2] \in 128..191
         THEN LET r == Decode(Tail(Tail(b)))
              IN  [ok |-> r.ok,
                   text |-> <<(Head(b) - 192) * 64 + (b[2] - 128)>> \o r.text]
    ELSE [ok |-> FALSE, text |-> <<>>]

(***************************************************************************)
(* State.                                                                  *)
(***************************************************************************)
VARIABLES
    unknown_args,    \* the raw template tokens
    output_file,     \* TRUE iff a destination is configured
    pc,              \* execute_commands: "open", "launch", "drain", "done", "failed"
    gen_pc,          \* generator: "unstarted", "pass1", "pass2", "yielded", "exhausted", "raised"
    idx,             \* pass 1: index of the next token to evaluate
    max_length,      \* generate_commands.max_length
    iterables,       \* generate_commands.iterables: idx -> value
    evaluated_args,  \* the one list object the generator yields every time
    i,               \* pass 2: expansion index
    processes,       \* execute_commands.processes
    drained,         \* number of processes handle_process_output has finished
    csvfile,         \* rows written to the destination
    console,         \* what handle_process_output printed, per process
    yielded,         \* history: the command as it stood at each yield
    nSeen,           \* history: the binding n of each evaluation, in order
    pass1Raised,     \* history: tokens whose pass-1 handling took the except branch
    raiseIdx,        \* history: token index at which pass 2 raised, or -1
    failure,         \* the exception that left execute_commands, "" if none
    exitOrder        \* history: the processes in the order they terminated

vars ==
    <<unknown_args, output_file, pc, gen_pc, idx, max_length, iterables,
      evaluated_args, i, processes, drained, csvfile, console, yielded,
      nSeen, pass1Raised, raiseIdx, failure, exitOrder>>

genVars == <<idx, max_length, iterables, evaluated_args, i>>

histVars == <<yielded, nSeen, pass1Raised, raiseIdx>>

envVars == <<failure, exitOrder>>

execVars == <<processes, drained, csvfile, console>>

RECURSIVE Templates(_)
Templates(k) ==
    IF k = 0 THEN {<<>>}
    ELSE Templates(k - 1) \cup
         {Append(t, tok) : t \in {s \in Templates(k - 1) : Len(s) = k - 1},
                           tok \in Tokens}

\* main() has parsed the arguments; nothing has run yet (a generator object
\* runs no code until it is first pulled).
Init ==
    /\ unknown_args \in Templates(MaxTokens)
    /\ output_file \in BOOLEAN
    /\ pc = "open"
    /\ gen_pc = "unstarted"
    /\ idx = 0
    /\ max_length = 0
    /\ iterables = <<>>
    /\ evaluated_args = <<>>
    /\ i = 0
    /\ processes = <<>>
    /\ drained = 0
    /\ csvfile = <<>>
    /\ console = <<>>
    /\ yielded = <<>>
    /\ nSeen = <<>>
    /\ pass1Raised = {}
    /\ raiseIdx = -1
    /\ failure = ""
    /\ exitOrder = <<>>


(***************************************************************************)
(* generate_commands (lines 51-90).  The generator runs only while the     *)
(* launch loop of execute_commands pulls from it.                          *)
(***************************************************************************)

\* max_length = 1 (line 62)
InitialMaxLength == 1

\* A slip that forgets to widen: max_length is left as it was.
NewMaxLengthStale(value, m) == m

\* max(len(value), max_length) (line 76)
NewMaxLength(value, m) == Max(Len(value.items), m)

\* A slip that clamps to the last element instead of cycling.
ElementAtClamped(iterable, k) ==
    iterable.items[IF k < Len(iterable.items) THEN k + 1 ELSE Len(iterable.items)]

\* iterable[i % len(iterable)] (line 89)
ElementAt(iterable, k) == iterable.items[(k % Len(iterable.items)) + 1]

\* The inner loop of pass 2 (lines 88-89) over the entries todo of the dict
\* its, in insertion order (ascending idx): the updated list, or ok = FALSE
\* with the list as it stood when entry `at` raised (len() of an unsized
\* iterable: TypeError; i % 0: ZeroDivisionError).
RECURSIVE Expand(_, _, _, _)
Expand(args, its, todo, k) ==
    IF todo = {} THEN [ok |-> TRUE, args |-> args, at |-> -1]
    ELSE LET p == Min(todo)
             it == its[p]
         IN  IF ~it.sized \/ Len(it.items) = 0
             THEN [ok |-> FALSE, args |-> args, at |-> p]
             ELSE Expand([args EXCEPT ![p + 1] = Str(ElementAt(it, k))],
                         its, todo \ {p}, k)

\* An off-by-one slip: one expansion index too many.
ExhaustedLate == i > max_length

\* range(max_length) is used up (line 87).
Exhausted == i >= max_length

\* A slip that consumes the generator before the destination is opened.
PullingEarly == pc \in {"open", "launch"}

\* The launch loop may pull from the generator (line 146).
Pulling == pc = "launch"

\* First pull: lines 60-62.
GenStart ==
    /\ Pulling
    /\ gen_pc = "unstarted"
    /\ evaluated_args' = unknown_args
    /\ iterables' = <<>>
    /\ max_length' = InitialMaxLength
    /\ idx' = 0
    /\ i' = 0
    /\ gen_pc' = IF Len(unknown_args) = 0 THEN "pass2" ELSE "pass1"
    /\ UNCHANGED <<unknown_args, output_file, pc, execVars, histVars, envVars>>

\* One iteration of pass 1 (lines 64-84).
Pass1Step ==
    /\ Pulling
    /\ gen_pc = "pass1"
    /\ idx < Len(unknown_args)
    /\ LET arg == unknown_args[idx + 1]
           value == Eval(arg, max_length)
       IN  /\ nSeen' = Append(nSeen, max_length)
           /\ CASE value.kind = "raise" ->
                     /\ pass1Raised' = pass1Raised \cup {idx}
                     /\ UNCHANGED <<iterables, max_length, evaluated_args>>
                [] value.kind = "iter" /\ value.sized ->
                     /\ iterables' = iterables @@ (idx :> value)
                     /\ max_length' = NewMaxLength(value, max_length)
                     /\ UNCHANGED <<evaluated_args, pass1Raised>>
                [] value.kind = "iter" /\ ~value.sized ->
                     \* line 75 has run when len() raises on line 76
                     /\ iterables' = iterables @@ (idx :> value)
                     /\ pass1Raised' = pass1Raised \cup {idx}
                     /\ UNCHANGED <<max_length, evaluated_args>>
                [] value.kind = "scalar" ->
                     /\ evaluated_args' =
                            [evaluated_args EXCEPT ![idx + 1] = Str(value.val)]
                     /\ UNCHANGED <<iterables, max_length, pass1Raised>>
    /\ idx' = idx + 1
    /\ gen_pc' = IF idx + 1 = Len(unknown_args) THEN "pass2" ELSE "pass1"
    /\ UNCHANGED <<unknown_args, output_file, pc, i, execVars, yielded, raiseIdx,
                   envVars>>

\* Pass 2 reaches the yield of expansion index i (lines 87-90).
GenYield ==
    /\ Pulling
    /\ gen_pc = "pass2"
    /\ ~Exhausted
    /\ LET r == Expand(evaluated_args, iterables, DOMAIN iterables, i)
       IN  /\ r.ok
           /\ evaluated_args' = r.args
           /\ yielded' = Append(yielded, r.args)
    /\ gen_pc' = "yielded"
    /\ UNCHANGED <<unknown_args, output_file, pc, idx, max_length, iterables, i,
                   execVars, nSeen, pass1Raised, raiseIdx, envVars>>

\* Pass 2 raises on line 89; the exception leaves execute_commands.
GenRaise ==
    /\ Pulling
    /\ gen_pc = "pass2"
    /\ ~Exhausted
    /\ LET r == Expand(evaluated_args, iterables, DOMAIN iterables, i)
       IN  /\ ~r.ok
           /\ evaluated_args' = r.args
           /\ raiseIdx' = r.at
    /\ gen_pc' = "raised"
    /\ pc' = "failed"
    /\ failure' = "generator"
    /\ UNCHANGED <<unknown_args, output_file, idx, max_length, iterables, i,
                   execVars, yielded, nSeen, pass1Raised, exitOrder>>

\* StopIteration ends the launch loop (line 146).
GenExhaust ==
    /\ Pulling
    /\ gen_pc = "pass2"
    /\ Exhausted
    /\ gen_pc' = "exhausted"
    /\ pc' = "drain"
    /\ UNCHANGED <<unknown_args, output_file, genVars, execVars, histVars, envVars>>

(***************************************************************************)
(* execute_commands (lines 124-155).                                       *)
(***************************************************************************)

\* header = unknown_args + ["stdout", "stderr", "returncode"] (line 141)
Header ==
    [kind |-> "header",
     cols |-> unknown_args \o <<"stdout", "stderr", "returncode">>]

\* Lines 136-144, the destination opened (or none configured).
OpenOk ==
    /\ pc = "open"
    /\ csvfile' = IF output_file THEN <<Header>> ELSE <<>>
    /\ pc' = "launch"
    /\ UNCHANGED <<unknown_args, output_file, gen_pc, genVars, processes,
                   drained, console, histVars, envVars>>

\* open() raises OSError (line 137).
OpenFail ==
    /\ pc = "open"
    /\ output_file
    /\ pc' = "failed"
    /\ failure' = "open"
    /\ UNCHANGED <<unknown_args, output_file, gen_pc, genVars, execVars, histVars,
                   exitOrder>>

\* A slip that launches the raw template instead of the generated command.
LaunchedCommandRaw == unknown_args

\* What Popen hands to the child: list(args), a copy taken at launch.
LaunchedCommand == evaluated_args

\* Body of the launch loop (lines 147-152); the next pull resumes the
\* generator after its yield, at the next expansion index.  With shell=True
\* Popen starts the shell whether or not the shell will find the command's
\* executable (found).
Launch ==
    /\ pc = "launch"
    /\ gen_pc = "yielded"
    /\ \E found \in BOOLEAN :
          processes' = Append(processes,
                              [launched |-> LaunchedCommand, found |-> found,
                               status |-> "running", stdout |-> <<>>,
                               stderr |-> <<>>, returncode |-> -1])
    /\ gen_pc' = "pass2"
    /\ i' = i + 1
    /\ UNCHANGED <<unknown_args, output_file, pc, idx, max_length, iterables,
                   evaluated_args, drained, csvfile, console, histVars, envVars>>

\* Popen raises (line 149); the exception leaves execute_commands.
LaunchFail ==
    /\ pc = "launch"
    /\ gen_pc = "yielded"
    /\ pc' = "failed"
    /\ failure' = "launch"
    /\ UNCHANGED <<unknown_args, output_file, gen_pc, genVars, execVars, histVars,
                   exitOrder>>

\* What the shell leaves behind when it does not find the executable:
\* a message on stderr and exit code 127.
NotFound == [stdout |-> <<>>, stderr |-> <<110, 111>>, returncode |-> 127]

\* Child k terminates, whenever it likes while the run lasts.
ProcessExit(k) ==
    /\ pc \in {"launch", "drain"}
    /\ k \in 1..Len(processes)
    /\ processes[k].status = "running"
    /\ \E o \in (IF processes[k].found THEN Outcomes ELSE {NotFound}) :
          processes' = [processes EXCEPT
                           ![k].status = "exited",
                           ![k].stdout = o.stdout,
                           ![k].stderr = o.stderr,
                           ![k].returncode = o.returncode]
    /\ exitOrder' = Append(exitOrder, k)
    /\ UNCHANGED <<unknown_args, output_file, pc, gen_pc, genVars, drained,
                   csvfile, console, histVars, failure>>

(***************************************************************************)
(* handle_process_output (lines 93-121).                                   *)
(***************************************************************************)

\* What process.args would be had Popen kept a copy taken at launch.
ProcessArgsCopied(k) == processes[k].launched

\* process.args of process k: Popen keeps the list object it was given, and
\* the generator yields the same list object every time (line 90).
ProcessArgs(k) == evaluated_args

\* row = process.args + [decoded_stdout, decoded_stderr, returncode] (116-120)
Row(k) ==
    [kind |-> "data",
     cols |-> ProcessArgs(k),
     stdout |-> Decode(processes[k].stdout).text,
     stderr |-> Decode(processes[k].stderr).text,
     returncode |-> processes[k].returncode]

\* A slip that drains while the launch loop is still running.
DrainingEager == pc \in {"launch", "drain"}

\* The drain loop is running (line 154).
Draining == pc = "drain"

\* A slip that drains the list from its end.
NextToDrainReversed == Len(processes) - drained

\* The process the drain loop hands to handle_process_output next:
\* enumerate(processes) (line 154).
NextToDrain == drained + 1

\* A slip that polls instead of waiting for the child.
TerminatedOrNot(k) == TRUE

\* process.communicate() returns (line 101): child k has terminated and its
\* pipes have been read to the end.
Terminated(k) == processes[k].status = "exited"

\* A slip that treats a non-zero exit code as an error (check_returncode).
DrainRaisesOnExitCode(k) ==
    \/ ~(Decode(processes[k].stdout).ok /\ Decode(processes[k].stderr).ok)
    \/ processes[k].returncode # 0

\* Lines 102-103 raise UnicodeDecodeError.
DrainRaises(k) ==
    ~(Decode(processes[k].stdout).ok /\ Decode(processes[k].stderr).ok)

\* What lines 105-113 print for process k.
Echo(k) ==
    [idx |-> k - 1,
     text |-> Decode(processes[k].stdout).text,
     returncode |-> processes[k].returncode,
     error |-> processes[k].stderr # <<>>]

\* handle_process_output(idx, process, csvwriter) returns normally.
DrainOk ==
    /\ Draining
    /\ drained < Len(processes)
    /\ LET k == NextToDrain
       IN  /\ Terminated(k)
           /\ ~DrainRaises(k)
           /\ console' = Append(console, Echo(k))
           /\ csvfile' = IF output_file THEN Append(csvfile, Row(k)) ELSE csvfile
    /\ drained' = drained + 1
    /\ UNCHANGED <<unknown_args, output_file, pc, gen_pc, genVars, processes,
                   histVars, envVars>>

\* decode raises UnicodeDecodeError (lines 102-103) before anything is
\* printed or written.
DrainDecodeError ==
    /\ Draining
    /\ drained < Len(processes)
    /\ LET k == NextToDrain
       IN  /\ Terminated(k)
           /\ DrainRaises(k)
    /\ pc' = "failed"
    /\ failure' = "decode"
    /\ UNCHANGED <<unknown_args, output_file, gen_pc, genVars, execVars, histVars,
                   exitOrder>>

\* csvwriter.writerow raises OSError (line 121), after the echo.
DrainWriteError ==
    /\ Draining
    /\ drained < Len(processes)
    /\ output_file
    /\ LET k == NextToDrain
       IN  /\ Terminated(k)
           /\ ~DrainRaises(k)
           /\ console' = Append(console, Echo(k))
    /\ pc' = "failed"
    /\ failure' = "write"
    /\ UNCHANGED <<unknown_args, output_file, gen_pc, genVars, processes, drained,
                   csvfile, histVars, exitOrder>>

\* The drain loop is over; the with block closes the file.
Finish ==
    /\ Draining
    /\ drained = Len(processes)
    /\ pc' = "done"
    /\ UNCHANGED <<unknown_args, output_file, gen_pc, genVars, execVars, histVars,
                   envVars>>

Next ==
    \/ OpenOk
    \/ OpenFail
    \/ GenStart
    \/ Pass1Step
    \/ GenYield
    \/ GenRaise
    \/ GenExhaust
    \/ Launch
    \/ LaunchFail
    \/ \E k \in 1..Len(processes) : ProcessExit(k)
    \/ DrainOk
    \/ DrainDecodeError
    \/ DrainWriteError
    \/ Finish

Spec == Init /\ [][Next]_vars

(***************************************************************************)
(* Properties.                                                             *)
(***************************************************************************)

\* Classification of token p, as pass 1 evaluated it.
Class(p) == Eval(unknown_args[p + 1], nSeen[p + 1])

\* Pass 1 has handled every token.
Pass1Over == gen_pc \in {"pass2", "yielded", "exhausted", "raised"}

\* The data rows of the destination are csvfile[2..]; row k + 1 is the row
\* of process k (1-based k).
DataRows == 2..Len(csvfile)

\* C1: in a run that completes, as many processes were launched as commands
\* were yielded, process k was launched with the command that yield k
\* produced, the drain pass collected processes 0..W-1 once each in that
\* order, and with a destination the file holds W + 1 rows whose stdout,
\* stderr and returncode columns in data row k are those of process k.
C1_CompleteRun ==
    pc = "done" =>
        /\ gen_pc = "exhausted"
        /\ Len(processes) = Len(yielded)
        /\ \A k \in 1..Len(processes) : processes[k].launched = yielded[k]
        /\ Len(console) = Len(yielded)
        /\ \A k \in 1..Len(console) : console[k].idx = k - 1
        /\ output_file =>
              /\ Len(csvfile) = Len(yielded) + 1
              /\ csvfile[1] = Header
              /\ \A k \in 1..Len(processes) :
                    /\ csvfile[k + 1].kind = "data"
                    /\ csvfile[k + 1].stdout = Decode(processes[k].stdout).text
                    /\ csvfile[k + 1].stderr = Decode(processes[k].stderr).text
                    /\ csvfile[k + 1].returncode = processes[k].returncode
                    /\ console[k].text = Decode(processes[k].stdout).text

\* C1 witness: a completed run with a destination, two different commands
\* and two processes that produced different output.
C1_Witness ==
    /\ pc = "done"
    /\ output_file
    /\ Len(yielded) >= 2
    /\ yielded[1] # yielded[2]
    /\ processes[1].stdout # processes[2].stdout

\* C2 (as claimed): the command columns of the row of process k are the
\* command generated at expansion index k.
C2_ArgsAreOwnCommand ==
    \A r \in DataRows : csvfile[r].cols = yielded[r - 1]

C4_EmptyTemplateRunsNothing ==
    unknown_args = <<>> => (yielded = <<>> /\ processes = <<>>)

\* Tokens that pass 1 classified as a sequence with a length, among the
\* first m tokens.
SizedBefore(m) ==
    {q \in 0..(m - 1) : Class(q).kind = "iter" /\ Class(q).sized}

\* max(1, the longest sequence among the first m tokens)
WidthBefore(m) ==
    LET lens == {Len(Class(q).items) : q \in SizedBefore(m)} \cup {1}
    IN  CHOOSE w \in lens : \A l \in lens : l <= w

\* ExpansionWidth of the template, once pass 1 is over.
ExpansionWidth == WidthBefore(Len(unknown_args))

\* C5 (as claimed): a generator that has finished on a template of at least
\* one token has yielded ExpansionWidth commands.
C5_YieldsExpansionWidth ==
    (Len(unknown_args) >= 1 /\ gen_pc \in {"exhausted", "raised"}) =>
        Len(yielded) = ExpansionWidth

\* C6: in the command yielded for expansion index j - 1, a position classified
\* as a sequence holds str(seq[(j - 1) mod len(seq)]) and every other position
\* holds the string it holds in every yielded command; while the generator is
\* suspended at a yield its list is that command.
C6_CyclicAlignment ==
    /\ gen_pc = "yielded" =>
          (Len(yielded) = i + 1 /\ evaluated_args = yielded[i + 1])
    /\ \A j \in 1..Len(yielded) :
          /\ Len(yielded[j]) = Len(unknown_args)
          /\ \A p \in 0..(Len(unknown_args) - 1) :
                LET v == Class(p)
                IN  IF v.kind = "iter"
                    THEN /\ v.sized
                         /\ Len(v.items) > 0
                         /\ yielded[j][p + 1] =
                                Str(v.items[((j - 1) % Len(v.items)) + 1])
                    ELSE yielded[j][p + 1] = yielded[1][p + 1]

\* C6 witness: a third command yielded from a template holding a sequence of
\* length 2, which has wrapped around.
C6_Witness ==
    /\ Len(yielded) = 3
    /\ \E p \in 0..(Len(unknown_args) - 1) :
          /\ Class(p).kind = "iter"
          /\ Len(Class(p).items) = 2
          /\ yielded[3][p + 1] = yielded[1][p + 1]
          /\ yielded[2][p + 1] # yielded[1][p + 1]

\* C7 (as claimed): a token whose handling in pass 1 raised appears as its
\* original text in every generated command and generation does not fail
\* because of it.
C7_Pass1ErrorIsLiteral ==
    \A p \in pass1Raised :
        /\ raiseIdx # p
        /\ \A j \in 1..Len(yielded) : yielded[j][p + 1] = unknown_args[p + 1]

\* No token of the template evaluated to an iterable.
NoExpandable ==
    /\ Pass1Over
    /\ \A p \in 0..(Len(unknown_args) - 1) : Class(p).kind # "iter"

\* C8 (as claimed): with no expandable token the single command is the
\* literal template.
C8_IdenticalToTemplate ==
    (NoExpandable /\ gen_pc = "exhausted") =>
        /\ max_length = 1
        /\ Len(yielded) = 1
        /\ yielded[1] = unknown_args

\* C8 (amended): with no expandable token ExpansionWidth is 1 and exactly one
\* command is generated; a token whose evaluation raised is the template
\* token, a token that evaluated to a scalar is the str() of its value.
C8_OneCommandStringified ==
    NoExpandable =>
        /\ max_length = 1
        /\ Len(yielded) <= 1
        /\ gen_pc # "raised"
        /\ gen_pc = "exhausted" => Len(yielded) = 1
        /\ \A j \in 1..Len(yielded) :
              /\ Len(yielded[j]) = Len(unknown_args)
              /\ \A p \in 0..(Len(unknown_args) - 1) :
                    yielded[j][p + 1] =
                        IF Class(p).kind = "raise"
                        THEN unknown_args[p + 1]
                        ELSE Str(Class(p).val)

\* C8 witness: the generator is exhausted on a template without expandable
\* token, and the command differs from the template.
C8_Witness ==
    /\ NoExpandable
    /\ gen_pc = "exhausted"
    /\ Len(unknown_args) >= 1
    /\ yielded[1] # unknown_args

\* C9: every token handled so far was evaluated once, token p with n bound to
\* max(1, the longest sequence among tokens 0..p-1).
C9_RunningWidth ==
    /\ Len(nSeen) = idx
    /\ idx <= Len(unknown_args)
    /\ Pass1Over => idx = Len(unknown_args)
    /\ \A p \in 0..(Len(nSeen) - 1) : nSeen[p + 1] = WidthBefore(p)

\* C9 witness: pass 1 is over and the token after a sequence of length 3 was
\* evaluated with n = 3.
C9_Witness ==
    /\ Pass1Over
    /\ Len(unknown_args) >= 2
    /\ nSeen[1] = 1
    /\ nSeen[2] = 3

\* C10: nothing is drained, echoed or recorded before the generator is
\* exhausted and every command it yielded has been launched.
C10_LaunchBeforeCollect ==
    (drained > 0 \/ console # <<>> \/ Len(csvfile) > 1) =>
        /\ gen_pc = "exhausted"
        /\ pc \in {"drain", "done", "failed"}
        /\ Len(processes) = Len(yielded)

\* C10 witness: a process has been drained in a run of at least two processes.
C10_Witness ==
    /\ drained >= 1
    /\ Len(processes) >= 2

\* C11: whatever the order of termination, the echoes are those of processes
\* 0, 1, 2, ... in that order, the data rows likewise, and when something of
\* process j has been echoed or recorded every process before j has
\* terminated and has been drained.
C11_CollectInLaunchOrder ==
    /\ Len(console) \in {drained, drained + 1}
    /\ Len(console) = drained + 1 => failure = "write"
    /\ \A k \in 1..Len(console) :
          /\ console[k].idx = k - 1
          /\ console[k].text = Decode(processes[k].stdout).text
          /\ \A m \in 1..k : processes[m].status = "exited"
          /\ \A m \in 1..(k - 1) : m <= drained
    /\ \A r \in DataRows :
          /\ r - 1 <= drained
          /\ csvfile[r].stdout = console[r - 1].text
          /\ csvfile[r].returncode = console[r - 1].returncode

\* C11 witness: the process launched second terminated first, and both have
\* been echoed.
C11_Witness ==
    /\ Len(exitOrder) >= 2
    /\ exitOrder[1] = 2
    /\ exitOrder[2] = 1
    /\ Len(console) >= 2

\* C12: the drain pass never fails because of an exit code: a decode failure
\* is a failure of undecodable output, a terminated process with decodable
\* output can be drained whatever its exit code, every drained process has
\* its exit code reported and recorded, and a run that is done has drained
\* every process.
C12_NonZeroExitNotFatal ==
    /\ failure = "decode" =>
          ~(/\ Decode(processes[drained + 1].stdout).ok
            /\ Decode(processes[drained + 1].stderr).ok)
    /\ (/\ pc = "drain"
        /\ drained < Len(processes)
        /\ processes[drained + 1].status = "exited"
        /\ Decode(processes[drained + 1].stdout).ok
        /\ Decode(processes[drained + 1].stderr).ok) => ENABLED DrainOk
    /\ \A k \in 1..drained :
          /\ console[k].returncode = processes[k].returncode
          /\ output_file => csvfile[k + 1].returncode = processes[k].returncode
    /\ pc = "done" => drained = Len(processes)

\* C12 witness: a run is done in which the first process exited with a
\* non-zero code and a later process was drained, echoed and recorded.
C12_Witness ==
    /\ pc = "done"
    /\ output_file
    /\ Len(processes) >= 2
    /\ processes[1].returncode # 0
    /\ console[1].returncode # 0
    /\ Len(console) = Len(processes)
    /\ Len(csvfile) = Len(processes) + 1

\* C13 (as claimed): a run on a template of at least one token in which a
\* launch failed has still generated and
\* launched every other command and drained every process it launched.
C13_LaunchFailureNotFatal ==
    (Len(unknown_args) >= 1 /\ failure = "launch") =>
        /\ gen_pc = "exhausted"
        /\ drained = Len(processes)

\* C14 (as claimed): a command (of a template of at least one token) that
\* could not be started has a record in a launch-error state, without exit code and with empty stdout and stderr.
C14_LaunchErrorRecord ==
    Len(unknown_args) >= 1 =>
        /\ failure = "launch" =>
              /\ Len(processes) = Len(yielded)
              /\ processes[Len(processes)].status = "launch_error"
        /\ \A k \in 1..Len(processes) :
              (~processes[k].found /\ processes[k].status # "running") =>
                  /\ processes[k].returncode = -1
                  /\ processes[k].stdout = <<>>
                  /\ processes[k].stderr = <<>>

\* C15: with a destination the header is in the file, as its first row, from
\* before the generator is first pulled (so before any launch); the data row
\* of process k is there only once process k has terminated and has been
\* echoed, and holds what that process produced.
C15_RowsAfterCollection ==
    /\ (output_file /\ (gen_pc # "unstarted" \/ processes # <<>>)) =>
          /\ Len(csvfile) >= 1
          /\ csvfile[1] = Header
    /\ \A r \in DataRows :
          /\ output_file
          /\ csvfile[1] = Header
          /\ csvfile[r].kind = "data"
          /\ r - 1 <= Len(processes)
          /\ r - 1 <= Len(console)
          /\ processes[r - 1].status = "exited"
          /\ csvfile[r].stdout = Decode(processes[r - 1].stdout).text
          /\ csvfile[r].stderr = Decode(processes[r - 1].stderr).text
          /\ csvfile[r].returncode = processes[r - 1].returncode

\* C15 witness: a data row has been written while a later process is still
\* running.
C15_Witness ==
    /\ Len(csvfile) >= 2
    /\ \E k \in 1..Len(processes) : processes[k].status = "running"

\* C16 (as claimed): unless a write to the destination failed, a drain pass
\* that has ended (on a template of at least one token) has drained and echoed every launched process.
C16_DrainNeverStopsEarly ==
    (/\ Len(unknown_args) >= 1
     /\ gen_pc = "exhausted"
     /\ pc \in {"done", "failed"}
     /\ failure # "write") =>
        /\ drained = Len(processes)
        /\ Len(console) = Len(processes)

\* C17 (as claimed): pass 2 never raises because of the length of a sequence,
\* and a generator that has finished on a template whose iterables all have a
\* length has yielded ExpansionWidth >= 1 commands.
C17_Pass2NeverRaisesOnLength ==
    /\ gen_pc = "raised" => ~iterables[raiseIdx].sized
    /\ (/\ gen_pc \in {"exhausted", "raised"}
        /\ \A p \in DOMAIN iterables : iterables[p].sized) =>
          /\ gen_pc = "exhausted"
          /\ Len(yielded) = ExpansionWidth
          /\ Len(yielded) >= 1

\* C18: nothing is generated and nothing is launched before the destination
\* is open; a run whose open failed has evaluated no token, generated no
\* command and started no process.
C18_OpenFailureRunsNothing ==
    (pc = "open" \/ failure = "open") =>
        /\ gen_pc = "unstarted"
        /\ nSeen = <<>>
        /\ yielded = <<>>
        /\ processes = <<>>
        /\ exitOrder = <<>>
        /\ console = <<>>

\* C18 witness: the open of the configured destination has failed.
C18_Witness ==
    /\ failure = "open"
    /\ pc = "failed"
    /\ output_file
    /\ Len(unknown_args) >= 1

====
